---- MODULE Spec2Model ----
(***************************************************************************)
(* A model of unredact.py: the PDF locator (find_pdfs), the per-file task  *)
(* (process_pdf with extract_text_ignore_overlays) and the dispatcher      *)
(* (main) with its thread pool, run twice in sequence on the same input    *)
(* and output roots.                                                       *)
(*                                                                         *)
(* Text is a sequence of one-token strings: a file name is the sequence of *)
(* its characters, a page text or a file content is a sequence of tokens   *)
(* in which "\n" and " " are the whitespace characters.                    *)
(***************************************************************************)
EXTENDS Integers, Sequences, FiniteSets, TLC

\* ------------------------------------------------------------------ bounds

\* The largest number of entries the input tree holds.
MaxEntries == 2

\* The largest worker count given with -t/--threads (the smallest is 0).
MaxThreads == 2

\* ------------------------------------------------- the input file system

\* The entries an input tree is drawn from.
\*   a   a.pdf          two pages, " C" and "\n"   (text on page 1 only)
\*   b   b.pdf          one page of white space     (no extractable text)
\*   c   c.pdf          a file that is no PDF       (fitz.open raises)
\*   d   d.pdf          a directory named d.pdf
\*   n   n.txt          a file that is no PDF and is not named like one
\*   u   a.PDF          a one-page PDF with an upper-case extension
\*   h   sub/.pdf       a one-page PDF named ".pdf"
\*   hh  sub/.pdf.pdf   a one-page PDF named ".pdf.pdf"
Entries == {"a", "b", "c", "d", "n", "u", "h", "hh"}

Name(e) ==
    CASE e = "a"  -> <<"a", ".", "p", "d", "f">>
      [] e = "b"  -> <<"b", ".", "p", "d", "f">>
      [] e = "c"  -> <<"c", ".", "p", "d", "f">>
      [] e = "d"  -> <<"d", ".", "p", "d", "f">>
      [] e = "n"  -> <<"n", ".", "t", "x", "t">>
      [] e = "u"  -> <<"a", ".", "P", "D", "F">>
      [] e = "h"  -> <<".", "p", "d", "f">>
      [] e = "hh" -> <<".", "p", "d", "f", ".", "p", "d", "f">>

\* The directory of an entry, relative to the scanned root.
Dir(e) == IF e \in {"h", "hh"} THEN <<"sub">> ELSE <<>>

IsFile(e) == e # "d"

\* Whether fitz.open accepts the entry as a document.
Opens(e) == e \in {"a", "b", "u", "h", "hh"}

\* What page.get_text("text") returns for each page of the document.
Doc(e) ==
    CASE e = "a"  -> << <<" ", "C">>, <<"\n">> >>
      [] e = "b"  -> << <<" ">> >>
      [] e = "u"  -> << <<"U">> >>
      [] e = "h"  -> << <<"H", " ", "H">> >>
      [] e = "hh" -> << <<"C", "\n">> >>
      [] OTHER    -> << >>

\* The message of the exception fitz.open raises for an entry it rejects.
OpenError(e) == IF IsFile(e) THEN "Failed to open file" ELSE "is no file"

\* ------------------------------------------------------- pure functions

Whitespace == {" ", "\n"}

\* str.strip(): the text without its leading and trailing white space.
RECURSIVE LStrip(_)
LStrip(s) ==
    IF s # <<>> /\ Head(s) \in Whitespace THEN LStrip(Tail(s)) ELSE s

RECURSIVE RStrip(_)
RStrip(s) ==
    IF s # <<>> /\ s[Len(s)] \in Whitespace
    THEN RStrip(SubSeq(s, 1, Len(s) - 1)) ELSE s

Strip(s) == RStrip(LStrip(s))

\* extract_text_ignore_overlays: every page's text, stripped, in page order.
extract_text_ignore_overlays(e) == [i \in 1..Len(Doc(e)) |-> Strip(Doc(e)[i])]

\* The test "if not pages" in place of "if not any(pages)".
AnyAll(pages) == pages # <<>>

\* any(pages): some page is a non-empty string.
any(pages) == \E i \in 1..Len(pages) : pages[i] # <<>>

\* str.lower() on the characters the names use.
Lower(ch) ==
    CASE ch = "P" -> "p" [] ch = "D" -> "d" [] ch = "F" -> "f" [] OTHER -> ch

\* The index of the last "." of a name, 0 when it has none (str.rfind + 1).
LastDot(nm) ==
    LET S == {i \in 1..Len(nm) : nm[i] = "."}
    IN  IF S = {} THEN 0 ELSE CHOOSE i \in S : \A j \in S : j <= i

\* PurePath.suffix: from the last dot on, unless the dot leads or ends the name.
Suffix(nm) ==
    LET i == LastDot(nm)
    IN  IF 1 < i /\ i < Len(nm) THEN SubSeq(nm, i, Len(nm)) ELSE <<>>

\* PurePath.stem: the name without its suffix.
Stem(nm) ==
    LET i == LastDot(nm)
    IN  IF 1 < i /\ i < Len(nm) THEN SubSeq(nm, 1, i - 1) ELSE nm

DotPdf == <<".", "p", "d", "f">>

\* The glob pattern "*.pdf" against one name: the name ends with ".pdf"
\* (case-sensitive, the star matching any characters, none included).
MatchesStarPdf(nm) ==
    Len(nm) >= Len(DotPdf) /\ SubSeq(nm, Len(nm) - Len(DotPdf) + 1, Len(nm)) = DotPdf

\* ----------------------------------------------------- paths of the output

\* The directories a path names: the path itself and every parent of it.
Prefixes(dir) == {SubSeq(dir, 1, k) : k \in 0..Len(dir)}

\* A mkdir that creates nothing.
mkdirNothing(dirs, dir) == dirs

\* Path.mkdir(parents=True, exist_ok=True) on the directories that exist.
mkdir(dirs, dir) == dirs \cup Prefixes(dir)

RecoveredTag == "_RECOVERED.txt"

\* ------------------------------------------------------------------ state

\* The output location is one of three and stays what it is through both runs:
\*   "ok"        everything can be created and written;
\*   "readonly"  nothing can be created: mkdir of a missing directory and
\*               open(..., "w") raise PermissionError;
\*   "full"      directories and empty files can be created, a write raises
\*               OSError (no space left on device).

VARIABLES
    tree,       \* the entries of the input tree
    input,      \* args.path: "ROOT" (the tree's root), "MISSING" or one entry
    threads,    \* args.threads
    env,        \* the output location: "ok", "readonly" or "full"
    outDirs,    \* the directories under the output root that exist (<<>>: the root)
    outFiles,   \* the files under the output root: path -> content
    run,        \* the number of the run of the tool, 1 or 2
    pc,         \* where main is
    pdfs,       \* main's list pdfs
    futures,    \* main's list futures (the entry each future was submitted for)
    queue,      \* the executor's work queue
    tstate,     \* per entry: "none", "pending", "running", "succeeded", "failed"
    tpc,        \* per entry: where its process_pdf call is
    pages,      \* per entry: process_pdf's local pages
    widx,       \* per entry: the page the write loop is at
    wrote,      \* per entry: what the task has written through its file handle
    result,     \* per entry: what process_pdf returned
    waiting,    \* whether as_completed has installed its waiter
    early,      \* the futures as_completed found finished when it was called
    waiter,     \* the futures that finished since, in completion order
    results,    \* main's list results
    printed,    \* the lines main has printed
    opened,     \* the entries passed to fitz.open in this run
    listing,    \* the order the input tree was listed in by the first run
    fs1         \* the output files and directories when the first run ended

vars == <<tree, input, threads, env, outDirs, outFiles, run, pc, pdfs, futures,
          queue, tstate, tpc, pages, widx, wrote, result, waiting, early, waiter,
          results, printed, opened, listing, fs1>>

args == <<tree, input, threads, env>>
pool == <<queue, tstate, tpc, pages, widx, wrote, result, early, waiter, opened>>
disk == <<outDirs, outFiles>>
hist == <<listing, fs1>>

NoResult == [pdf |-> "-", ok |-> FALSE, err |-> "-"]
NoneMsg == "None"

Line(tag, n, pdf, err) == [tag |-> tag, n |-> n, pdf |-> pdf, err |-> err]

\* The process state of a run that has parsed its arguments (lines 64-67).
NoTasks == [tstate |-> [e \in Entries |-> "none"],
            tpc    |-> [e \in Entries |-> "-"],
            pages  |-> [e \in Entries |-> <<>>],
            widx   |-> [e \in Entries |-> 0],
            wrote  |-> [e \in Entries |-> <<>>],
            result |-> [e \in Entries |-> NoResult]]

Init ==
    /\ tree \in {t \in SUBSET Entries : Cardinality(t) <= MaxEntries}
    /\ input \in {"ROOT", "MISSING"} \cup tree
    /\ threads \in 0..MaxThreads
    /\ env \in {"ok", "readonly", "full"}
    /\ outDirs \in {{}, {<<>>}}
    /\ outFiles = <<>>
    /\ run = 1
    /\ pc = "mkroot"
    /\ pdfs = <<>>
    /\ futures = <<>>
    /\ queue = <<>>
    /\ tstate = NoTasks.tstate
    /\ tpc = NoTasks.tpc
    /\ pages = NoTasks.pages
    /\ widx = NoTasks.widx
    /\ wrote = NoTasks.wrote
    /\ result = NoTasks.result
    /\ waiting = FALSE
    /\ early = {}
    /\ waiter = <<>>
    /\ results = <<>>
    /\ printed = <<>>
    /\ opened = {}
    /\ listing = <<>>
    /\ fs1 = <<{}, <<>>>>

\* ---------------------------------------------------------------- locator

\* Path.rglob("*.pdf") from the input path: every entry beneath it, file or
\* directory, whose name matches. Beneath a file or a missing path: nothing.
rglob(path) ==
    IF path = "ROOT" THEN {e \in tree : MatchesStarPdf(Name(e))} ELSE {}

\* path.is_file() and path.suffix.lower() == ".pdf"
IsPdfFile(path) ==
    /\ path \in tree
    /\ IsFile(path)
    /\ [i \in 1..Len(Suffix(Name(path))) |-> Lower(Suffix(Name(path))[i])] = DotPdf

\* find_pdfs: the set its list holds.
find_pdfs(path) == IF IsPdfFile(path) THEN {path} ELSE rglob(path)

\* The orders a list of the set may come in (no order is promised).
Orders(S) ==
    {q \in [1..Cardinality(S) -> S] : \A i, j \in 1..Cardinality(S) : q[i] = q[j] => i = j}

\* pdf_path.relative_to(input_root).parent: the entry's directory under a
\* scanned root, "." when the input is the file itself.
RelativeParent(e) == IF input = e THEN <<>> ELSE Dir(e)

\* out_dir and out_file of process_pdf.
OutDir(e) == RelativeParent(e)

OutFile(e) == <<OutDir(e), Stem(Name(e)) \o <<RecoveredTag>>>>

\* ------------------------------------------------------------------- main

\* Line 68: output_root.mkdir(parents=True, exist_ok=True). Where nothing can
\* be created and the root is missing the call raises and the run ends there.
MkOutputRoot ==
    /\ pc = "mkroot"
    /\ IF env = "readonly" /\ <<>> \notin outDirs
       THEN pc' = "crashed" /\ UNCHANGED outDirs
       ELSE pc' = "find" /\ outDirs' = mkdir(outDirs, <<>>)
    /\ UNCHANGED <<args, outFiles, run, pdfs, futures, pool, waiting, results,
                   printed, hist>>

\* Line 70: pdfs = find_pdfs(input_root). The first run gets the list in any
\* order; the second run of an unchanged tree gets it in the same order.
FindPdfs ==
    /\ pc = "find"
    /\ pdfs' \in IF run = 1 THEN Orders(find_pdfs(input)) ELSE {listing}
    /\ listing' = pdfs'
    /\ pc' = "found"
    /\ UNCHANGED <<args, disk, run, futures, pool, waiting, results, printed, fs1>>

\* Lines 72-74: no PDF, one message, return.
NoPdfs ==
    /\ pc = "found"
    /\ pdfs = <<>>
    /\ printed' = Append(printed, Line("No PDFs found.", 0, "-", "-"))
    /\ pc' = "exited"
    /\ UNCHANGED <<args, disk, run, pdfs, futures, pool, waiting, results, hist>>

\* Lines 76-78: the three status lines.
Announce ==
    /\ pc = "found"
    /\ pdfs # <<>>
    /\ printed' = printed \o <<Line("Found", Len(pdfs), "-", "-"),
                               Line("Threads", threads, "-", "-"),
                               Line("Output root", 0, "-", "-")>>
    /\ pc' = "executor"
    /\ UNCHANGED <<args, disk, run, pdfs, futures, pool, waiting, results, hist>>

\* Line 82: ThreadPoolExecutor(max_workers=args.threads) raises ValueError
\* for a count below 1; nothing in main catches it.
MakeExecutor ==
    /\ pc = "executor"
    /\ pc' = IF threads <= 0 THEN "crashed" ELSE "submit"
    /\ UNCHANGED <<args, disk, run, pdfs, futures, pool, waiting, results,
                   printed, hist>>

\* Lines 83-86: one executor.submit per element of pdfs, in list order.
Submit ==
    /\ pc = "submit"
    /\ Len(futures) < Len(pdfs)
    /\ LET e == pdfs[Len(futures) + 1]
       IN  /\ futures' = Append(futures, e)
           /\ queue' = Append(queue, e)
           /\ tstate' = [tstate EXCEPT ![e] = "pending"]
    /\ UNCHANGED <<args, disk, run, pc, pdfs, tpc, pages, widx, wrote, result,
                   waiting, early, waiter, results, printed, opened, hist>>

Finished(e) == tstate[e] \in {"succeeded", "failed"}

\* Line 88: as_completed(futures) notes the futures already finished and
\* installs a waiter on the others.
AsCompleted ==
    /\ pc = "submit"
    /\ Len(futures) = Len(pdfs)
    /\ early' = {futures[i] : i \in {j \in 1..Len(futures) : Finished(futures[j])}}
    /\ waiting' = TRUE
    /\ pc' = "collect"
    /\ UNCHANGED <<args, disk, run, pdfs, futures, queue, tstate, tpc, pages,
                   widx, wrote, result, waiter, results, printed, opened, hist>>

\* Line 89: results.append(future.result()) for the next future as_completed
\* yields: those found finished first, in no order, then the others in the
\* order they finished.
Collect ==
    /\ pc = "collect"
    /\ \/ \E e \in early :
            /\ early' = early \ {e}
            /\ results' = Append(results, result[e])
            /\ UNCHANGED waiter
       \/ /\ early = {}
          /\ waiter # <<>>
          /\ results' = Append(results, result[Head(waiter)])
          /\ waiter' = Tail(waiter)
          /\ UNCHANGED early
    /\ UNCHANGED <<args, disk, run, pc, pdfs, futures, queue, tstate, tpc, pages,
                   widx, wrote, result, waiting, printed, opened, hist>>

\* The end of the with block (line 89 to 91): as_completed has yielded every
\* future and the executor shuts down.
Shutdown ==
    /\ pc = "collect"
    /\ Len(results) = Len(futures)
    /\ pc' = "summary"
    /\ UNCHANGED <<args, disk, run, pdfs, futures, pool, waiting, results,
                   printed, hist>>

\* A count of every result, ok or not.
successAll(rs) == Len(rs)

\* Lines 92-93.
success(rs) == Cardinality({i \in 1..Len(rs) : rs[i].ok})

failed(rs) == Len(rs) - success(rs)

\* Lines 100-102: one [FAIL] line per result that is not ok, in list order.
RECURSIVE FailLines(_)
FailLines(rs) ==
    IF rs = <<>> THEN <<>>
    ELSE (IF Head(rs).ok THEN <<>> ELSE <<Line("FAIL", 0, Head(rs).pdf, Head(rs).err)>>)
         \o FailLines(Tail(rs))

\* Lines 95-102 and the return of main.
Summary ==
    /\ pc = "summary"
    /\ printed' = printed \o <<Line("SUMMARY", 0, "-", "-"),
                               Line("Processed", Len(results), "-", "-"),
                               Line("Recovered", success(results), "-", "-"),
                               Line("Failed", failed(results), "-", "-")>>
                          \o FailLines(results)
    /\ pc' = "exited"
    /\ UNCHANGED <<args, disk, run, pdfs, futures, pool, waiting, results, hist>>

\* ------------------------------------------------------------ process_pdf

\* A turn of the write loop that leaves the header out.
PageBlockNoHeader(i, text) == text \o <<"\n">>

\* Lines 34-35: what one turn of the write loop writes for page i.
PageBlock(i, text) ==
    <<"\n", "--- PAGE " \o ToString(i) \o " ---", "\n">> \o text \o <<"\n">>

\* A write of data at offset pos of a file: the bytes there are replaced, the
\* file grows as needed, a gap past its end reads as NUL.
WriteAt(content, pos, data) ==
    LET n == IF Len(content) > pos + Len(data) THEN Len(content) ELSE pos + Len(data)
    IN  [k \in 1..n |->
            IF k > pos /\ k <= pos + Len(data) THEN data[k - pos]
            ELSE IF k <= Len(content) THEN content[k]
            ELSE "NUL"]

\* open(out_file, "w"): the file exists and is empty.
TruncateOpen(files, path) == (path :> <<>>) @@ files

\* An except clause that reports the exception as a success.
SwallowAsSuccess(e, msg) == [pdf |-> e, ok |-> TRUE, err |-> msg]

\* Line 40: the result the except clause makes of an exception.
OnException(e, msg) == [pdf |-> e, ok |-> FALSE, err |-> msg]

\* Line 24.
NoText(e) == [pdf |-> e, ok |-> FALSE, err |-> "No extractable text"]

\* Line 37.
Recovered(e) == [pdf |-> e, ok |-> TRUE, err |-> NoneMsg]

\* The call returns res: the future is finished and a waiter hears of it.
Done(e, res) ==
    /\ result' = [result EXCEPT ![e] = res]
    /\ tstate' = [tstate EXCEPT ![e] = IF res.ok THEN "succeeded" ELSE "failed"]
    /\ tpc' = [tpc EXCEPT ![e] = "-"]
    /\ waiter' = IF waiting THEN Append(waiter, e) ELSE waiter

Running == {e \in Entries : tstate[e] = "running"}

\* A worker that reads the first work item and leaves it in the queue.
DequeueKeep(q) == q

\* What a worker leaves in the queue when it takes the first work item.
Dequeue(q) == Tail(q)

\* A worker takes the next work item and calls process_pdf.
Start(e) ==
    /\ pc \in {"submit", "collect"}
    /\ queue # <<>>
    /\ e = Head(queue)
    /\ Cardinality(Running) < threads
    /\ queue' = Dequeue(queue)
    /\ tstate' = [tstate EXCEPT ![e] = "running"]
    /\ tpc' = [tpc EXCEPT ![e] = "extract"]
    /\ UNCHANGED <<args, disk, run, pc, pdfs, futures, pages, widx, wrote, result,
                   waiting, early, waiter, results, printed, opened, hist>>

\* Lines 21-28: extraction, the return when no page has text, and the
\* creation of the mirrored directory, parents included. Nothing another
\* thread does is read between the extraction and the mkdir.
Extract(e) ==
    /\ tstate[e] = "running"
    /\ tpc[e] = "extract"
    /\ opened' = opened \cup {e}
    /\ IF ~Opens(e)
       THEN Done(e, OnException(e, OpenError(e))) /\ UNCHANGED <<pages, outDirs>>
       ELSE /\ pages' = [pages EXCEPT ![e] = extract_text_ignore_overlays(e)]
            /\ IF ~any(pages'[e])
               THEN Done(e, NoText(e)) /\ UNCHANGED outDirs
               ELSE IF env = "readonly" /\ OutDir(e) \notin outDirs
               THEN Done(e, OnException(e, "Permission denied")) /\ UNCHANGED outDirs
               ELSE /\ outDirs' = mkdir(outDirs, OutDir(e))
                    /\ tpc' = [tpc EXCEPT ![e] = "open"]
                    /\ UNCHANGED <<tstate, result, waiter>>
    /\ UNCHANGED <<args, outFiles, run, pc, pdfs, futures, queue, widx, wrote,
                   waiting, early, results, printed, hist>>

\* Lines 30-32: the output file is opened for writing.
OpenOut(e) ==
    /\ tstate[e] = "running"
    /\ tpc[e] = "open"
    /\ IF env = "readonly"
       THEN /\ Done(e, OnException(e, "Permission denied"))
            /\ UNCHANGED <<outFiles, widx>>
       ELSE /\ outFiles' = TruncateOpen(outFiles, OutFile(e))
            /\ widx' = [widx EXCEPT ![e] = 1]
            /\ tpc' = [tpc EXCEPT ![e] = "write"]
            /\ UNCHANGED <<tstate, result, waiter>>
    /\ UNCHANGED <<args, outDirs, run, pc, pdfs, futures, queue, pages, wrote,
                   waiting, early, results, printed, opened, hist>>

\* Lines 33-37: one turn of the write loop, at the handle's own offset; after
\* the last page the file is closed and the call returns success. A write
\* that finds no space raises.
WritePage(e) ==
    /\ tstate[e] = "running"
    /\ tpc[e] = "write"
    /\ widx[e] <= Len(pages[e])
    /\ IF env = "full"
       THEN /\ Done(e, OnException(e, "No space left on device"))
            /\ UNCHANGED <<outFiles, widx, wrote>>
       ELSE LET data == PageBlock(widx[e], pages[e][widx[e]])
            IN  /\ outFiles' = [outFiles EXCEPT ![OutFile(e)] =
                                    WriteAt(@, Len(wrote[e]), data)]
                /\ wrote' = [wrote EXCEPT ![e] = @ \o data]
                /\ widx' = [widx EXCEPT ![e] = @ + 1]
                /\ IF widx[e] = Len(pages[e])
                   THEN Done(e, Recovered(e))
                   ELSE UNCHANGED <<tstate, tpc, result, waiter>>
    /\ UNCHANGED <<args, outDirs, run, pc, pdfs, futures, queue, pages, waiting,
                   early, results, printed, opened, hist>>

\* ---------------------------------------------------------- the second run

\* The tool is run again on the same input and output roots, with the same
\* arguments, once the first run is over.
Rerun ==
    /\ run = 1
    /\ pc \in {"exited", "crashed"}
    /\ run' = 2
    /\ pc' = "mkroot"
    /\ pdfs' = <<>>
    /\ futures' = <<>>
    /\ queue' = <<>>
    /\ tstate' = NoTasks.tstate
    /\ tpc' = NoTasks.tpc
    /\ pages' = NoTasks.pages
    /\ widx' = NoTasks.widx
    /\ wrote' = NoTasks.wrote
    /\ result' = NoTasks.result
    /\ waiting' = FALSE
    /\ early' = {}
    /\ waiter' = <<>>
    /\ results' = <<>>
    /\ printed' = <<>>
    /\ opened' = {}
    /\ fs1' = <<outDirs, outFiles>>
    /\ UNCHANGED <<args, disk, listing>>

Next ==
    \/ MkOutputRoot
    \/ FindPdfs
    \/ NoPdfs
    \/ Announce
    \/ MakeExecutor
    \/ Submit
    \/ AsCompleted
    \/ Collect
    \/ Shutdown
    \/ Summary
    \/ Rerun
    \/ \E e \in Entries : Start(e)
    \/ \E e \in Entries : Extract(e)
    \/ \E e \in Entries : OpenOut(e)
    \/ \E e \in Entries : WritePage(e)

Spec == Init /\ [][Next]_vars

\* ------------------------------------------------- what the claims speak of

\* The PDFs the locator located in this run.
Located == {pdfs[i] : i \in 1..Len(pdfs)}

\* The run is over: main returned, or an exception left it.
Terminated == pc \in {"exited", "crashed"}

\* The document opens and some page of it holds a character that is not
\* white space.
HasText(e) ==
    /\ Opens(e)
    /\ \E i \in 1..Len(Doc(e)) : \E k \in 1..Len(Doc(e)[i]) :
            Doc(e)[i][k] \notin Whitespace

\* A regular file whose name ends with ".pdf".
IsPdfEntry(e) ==
    /\ IsFile(e)
    /\ Len(Name(e)) >= 4
    /\ <<Name(e)[Len(Name(e)) - 3], Name(e)[Len(Name(e)) - 2],
         Name(e)[Len(Name(e)) - 1], Name(e)[Len(Name(e))]>> = <<".", "p", "d", "f">>

\* An exception is raised inside the entry's task: the document does not
\* open, or it has text to write and the output location refuses it.
Faulted(e) == ~Opens(e) \/ (HasText(e) /\ env # "ok")

HeaderLine(i) == "--- PAGE " \o ToString(i) \o " ---"

SummaryAt == {i \in 1..Len(printed) : printed[i].tag = "SUMMARY"}
SummaryPrinted == SummaryAt # {}

\* The numbers printed on the lines with a tag.
Printed(tag) == {printed[i].n : i \in {j \in 1..Len(printed) : printed[j].tag = tag}}

\* ---------------------------------------------------------------------- C1

\* C1, as claimed: after a run, for every located PDF, its output file exists
\* if and only if one of its extracted pages is non-empty, whatever the
\* outcome of process_pdf.
C1_Original ==
    pc = "exited" =>
        \A e \in Located : (OutFile(e) \in DOMAIN outFiles) <=> HasText(e)

\* C1, amended: after a run, a file exists at an output path if and only if
\* some located PDF mirrored to that path has a page with text and its task
\* got to open the file: the pool was created and the output location let
\* the directory and the file be created. A PDF without text never has a
\* file of its own making, and a failed directory creation or open leaves a
\* PDF with text without a file.
C1_Amended ==
    Terminated =>
        \A P \in DOMAIN outFiles \cup {OutFile(e) : e \in Located} :
            (P \in DOMAIN outFiles) <=>
                /\ \E e \in Located : OutFile(e) = P /\ HasText(e)
                /\ env # "readonly"
                /\ threads > 0

\* A finished run that wrote a.pdf's file and none for b.pdf, which has no text.
C1_Witness ==
    /\ pc = "exited"
    /\ Located = {"a", "b"}
    /\ OutFile("a") \in DOMAIN outFiles
    /\ OutFile("b") \notin DOMAIN outFiles
    /\ result["b"].err = "No extractable text"

\* ---------------------------------------------------------------------- C2

\* C2, as claimed: the content a successful task wrote starts with the header
\* line of page 1, and for a.pdf (pages "C" and "") it is exactly
\* "--- PAGE 1 ---\nC\n\n--- PAGE 2 ---\n\n".
C2_Original ==
    \A e \in Entries : tstate[e] = "succeeded" =>
        /\ wrote[e] # <<>>
        /\ wrote[e][1] = HeaderLine(1)
        /\ e = "a" => wrote[e] = <<"--- PAGE 1 ---", "\n", "C", "\n", "\n",
                                   "--- PAGE 2 ---", "\n", "\n">>

\* The content claimed for pages ps from page i on, each header line
\* preceded by the newline the code writes before it.
RECURSIVE Blocks(_, _)
Blocks(ps, i) ==
    IF i > Len(ps) THEN <<>>
    ELSE <<"\n", HeaderLine(i), "\n">> \o ps[i] \o <<"\n">> \o Blocks(ps, i + 1)

\* C2, amended: the content a successful task wrote is, for each page i in
\* document order, a newline, the line "--- PAGE i ---", the page's stripped
\* text and a newline: one header per source page, and a newline before the
\* first header. For a.pdf it is "\n--- PAGE 1 ---\nC\n\n--- PAGE 2 ---\n\n".
\* A file only one located PDF is mirrored to holds exactly that content
\* once the run is over.
C2_Amended ==
    \A e \in Entries : tstate[e] = "succeeded" =>
        /\ wrote[e] = Blocks(pages[e], 1)
        /\ Len(pages[e]) = Len(Doc(e))
        /\ Cardinality({k \in 1..Len(wrote[e]) :
                \E i \in 1..Len(Doc(e)) : wrote[e][k] = HeaderLine(i)}) = Len(Doc(e))
        /\ e = "a" => wrote[e] = <<"\n", "--- PAGE 1 ---", "\n", "C", "\n", "\n",
                                   "--- PAGE 2 ---", "\n", "\n">>
        /\ (Terminated /\ \A o \in Located \ {e} : OutFile(o) # OutFile(e))
                => outFiles[OutFile(e)] = wrote[e]

\* A finished run in which a.pdf's task succeeded and its file is on disk.
C2_Witness ==
    /\ pc = "exited"
    /\ tstate["a"] = "succeeded"
    /\ outFiles[OutFile("a")] = wrote["a"]
    /\ Len(wrote["a"]) = 9

\* ---------------------------------------------------------------------- C3

\* C3: once the results are collected there is exactly one result for every
\* located PDF; the result of a PDF whose task raised is a failure with a
\* message, the result of every other PDF is its own (success when it has
\* text, "No extractable text" when it has none), whatever its siblings did;
\* and main is never left by an exception once a task was submitted.
C3_Theorem ==
    /\ pc = "crashed" => futures = <<>>
    /\ pc \in {"summary", "exited"} /\ pdfs # <<>> =>
        /\ Len(results) = Len(pdfs)
        /\ \A e \in Located :
                Cardinality({i \in 1..Len(results) : results[i].pdf = e}) = 1
        /\ \A i \in 1..Len(results) :
             LET r == results[i]
             IN  /\ Faulted(r.pdf) => ~r.ok /\ r.err \notin {"", NoneMsg}
                 /\ ~Faulted(r.pdf) /\ HasText(r.pdf) => r.ok /\ r.err = NoneMsg
                 /\ ~Faulted(r.pdf) /\ ~HasText(r.pdf) =>
                        ~r.ok /\ r.err = "No extractable text"

\* A finished run over c.pdf, which does not open, and a.pdf: a failure with
\* fitz's message for the one, a success for the other.
C3_Witness ==
    /\ pc = "exited"
    /\ Located = {"a", "c"}
    /\ result["c"] = [pdf |-> "c", ok |-> FALSE, err |-> OpenError("c")]
    /\ result["a"].ok
    /\ Len(results) = 2

\* ---------------------------------------------------------------------- C4

\* C4: when the summary is printed every submitted task has succeeded or
\* failed, and the summary reports Processed = the number of located PDFs,
\* Recovered = the number of tasks that returned success, Failed = Processed -
\* Recovered, and one [FAIL] line, with path and message, for exactly the
\* PDFs whose task returned a failure.
C4_Theorem ==
    SummaryPrinted =>
        LET ok    == {e \in Located : result[e].ok}
            fails == {i \in 1..Len(printed) : printed[i].tag = "FAIL"}
        IN  /\ Cardinality(SummaryAt) = 1
            /\ \A e \in Located : Finished(e)
            /\ {futures[i] : i \in 1..Len(futures)} = Located
            /\ Printed("Processed") = {Cardinality(Located)}
            /\ Printed("Recovered") = {Cardinality(ok)}
            /\ Printed("Failed") = {Cardinality(Located) - Cardinality(ok)}
            /\ {<<printed[i].pdf, printed[i].err>> : i \in fails}
                    = {<<e, result[e].err>> : e \in Located \ ok}
            /\ Cardinality(fails) = Cardinality(Located \ ok)
            /\ \A i \in fails : \A j \in SummaryAt : i > j

\* A printed summary of one success and one failure, collected in another
\* order than the tasks were submitted in.
C4_Witness ==
    /\ pc = "exited"
    /\ Len(results) = 2
    /\ results[1].pdf = futures[2]
    /\ Printed("Recovered") = {1}
    /\ Printed("Failed") = {1}

\* ---------------------------------------------------------------------- C5

\* C5, as claimed: when the second run on the same input and output roots is
\* over, the output files and their contents are those the first run left.
C5_Claim ==
    run = 2 /\ Terminated => <<outDirs, outFiles>> = fs1

\* ---------------------------------------------------------------------- C6

\* C6, as claimed: for a directory input exactly as many tasks are submitted
\* as the tree holds PDF files, and nothing but a PDF file is opened.
C6_Claim ==
    input = "ROOT" /\ pc \in {"collect", "summary", "exited"} =>
        /\ Len(futures) = Cardinality({e \in tree : IsPdfEntry(e)})
        /\ \A e \in opened : IsPdfEntry(e)

\* ---------------------------------------------------------------------- C7

NoPdfsFound == <<Line("No PDFs found.", 0, "-", "-")>>

\* What a run that locates nothing has done when main returns.
QuietExit ==
    /\ pdfs = <<>>
    /\ printed = NoPdfsFound
    /\ futures = <<>>
    /\ opened = {}
    /\ \A e \in Entries : tstate[e] = "none"

\* C7, as claimed: when the locator finds no PDF under the given path, no
\* step of the run changes anything on disk, and main returns having printed
\* the message only, with no task submitted and no summary.
C7_Original ==
    [][ run' = run /\ find_pdfs(input) = {} =>
          /\ outFiles' = outFiles
          /\ outDirs' = outDirs
          /\ pc' = "exited" => QuietExit'
      ]_vars

\* C7, amended: when the locator finds no PDF under the given path, main
\* returns having printed the message only, with no task submitted and no
\* summary; no step of the run writes a file, and the one change on disk is
\* the output root, which line 68 creates before the locator runs when it
\* does not exist.
C7_Amended ==
    [][ run' = run /\ find_pdfs(input) = {} =>
          /\ outFiles' = outFiles
          /\ outDirs' = IF pc = "mkroot" /\ pc' = "find"
                         THEN outDirs \cup {<<>>} ELSE outDirs
          /\ pc' = "exited" => QuietExit' /\ <<>> \in outDirs'
      ]_vars

\* The first run over a tree that holds no PDF it locates has created the
\* output root, printed the message and returned.
C7_Witness ==
    /\ pc = "exited"
    /\ run = 1
    /\ tree # {}
    /\ input = "ROOT"
    /\ QuietExit
    /\ outDirs = {<<>>}
    /\ outFiles = <<>>

\* ---------------------------------------------------------------------- C8

\* C8, as claimed: a run that located a PDF never ends before the summary,
\* whatever worker count the command line accepted.
C8_Claim ==
    Terminated /\ pdfs # <<>> => SummaryPrinted

\* ---------------------------------------------------------------------- C9

IsPrefix(s, t) == Len(s) <= Len(t) /\ SubSeq(t, 1, Len(s)) = s

\* One step of a running task, whichever it is.
TaskStep(e) == Extract(e) \/ OpenOut(e) \/ WritePage(e)

\* C9: within a run each located PDF is submitted once and its task moves
\* only none -> pending -> running -> succeeded or failed; a finished task
\* stays finished and is not run again, a result is set when its task
\* finishes and never changed afterwards, collected results stay as they
\* are, and a running task can take its next step whatever the other tasks
\* are doing.
C9_Theorem ==
    [][ run' = run =>
          /\ \A i, j \in 1..Len(futures') : futures'[i] = futures'[j] => i = j
          /\ IsPrefix(futures, futures')
          /\ IsPrefix(results, results')
          /\ \A e \in Entries :
                /\ \/ tstate'[e] = tstate[e]
                   \/ <<tstate[e], tstate'[e]>> \in
                        {<<"none", "pending">>, <<"pending", "running">>,
                         <<"running", "succeeded">>, <<"running", "failed">>}
                /\ result'[e] # result[e] =>
                        tstate[e] = "running" /\ tstate'[e] \in {"succeeded", "failed"}
                /\ tstate[e] = "running" => ENABLED TaskStep(e)
      ]_vars

\* A finished run in which one task succeeded and another failed.
C9_Witness ==
    /\ pc = "exited"
    /\ \E e, o \in Located : tstate[e] = "succeeded" /\ tstate[o] = "failed"
    /\ queue = <<>>

\* --------------------------------------------------------------------- C10

\* C10, as claimed: two different located PDFs are never mapped to the same
\* output file path, so no two tasks ever have the same output file open for
\* writing at the same time.
C10_Claim ==
    \A e, o \in Located :
        e # o /\ tpc[e] = "write" /\ tpc[o] = "write" => OutFile(e) # OutFile(o)
====
